---------------------------- MODULE Spec2Model ----------------------------
(***************************************************************************)
(* State-machine model of the SGI IP4 board logic of src/mame/sgi/ip4.cpp: *)
(* the local interrupt aggregator, the SCSI DMA engine, the CPU            *)
(* configuration register and the bad-parity emulation (shadow bitmap and  *)
(* memory tap), with the address map, the serial controller window and the *)
(* interrupt wiring of the machine.  Registers keep their C++ widths;      *)
(* every handler of the driver is one action.                              *)
(*                                                                         *)
(* Besides the driver's members, the state holds what the handlers drive   *)
(* outside the driver: the CPU's IRQ1, IRQ2 and IRQ4 inputs, the pending   *)
(* soft-reset request, and of the handler that ran last whether it served  *)
(* a CPU read or write (access) and the calls it made into other devices,  *)
(* in order (ev).  The data bytes moved by DMA are not modelled: no        *)
(* handler looks at them.                                                  *)
(***************************************************************************)
EXTENDS Integers, Sequences, FiniteSets, TLC

VARIABLES
    m_cpucfg,              \* u16
    m_dmalo,               \* u16
    m_dmahi,               \* u16
    m_lio_isr,             \* u8
    m_parerr,              \* u8
    m_erradr,              \* u32
    m_parity,              \* contents of the u8[] shadow bitmap: index -> non-zero byte
    m_parity_alloc,        \* the unique_ptr m_parity is non-null
    m_parity_mph,          \* the parity passthrough handler (tap) is installed
    m_parity_bad,          \* u32
    m_lio_int,             \* bool
    m_leds,                \* output_finder<5>
    cpu_irq1,              \* level of the CPU's INPUT_LINE_IRQ1
    cpu_irq2,              \* level of the CPU's INPUT_LINE_IRQ2
    cpu_irq4,              \* level of the CPU's INPUT_LINE_IRQ4
    soft_reset_scheduled,  \* machine().schedule_soft_reset() is pending
    dma_steps,             \* DMA transfer steps performed so far
    access,                \* the last handler served a CPU "read" or "write", or "none"
    ev                     \* the calls the last handler made into other devices

vars == <<m_cpucfg, m_dmalo, m_dmahi, m_lio_isr, m_parerr, m_erradr, m_parity,
          m_parity_alloc, m_parity_mph, m_parity_bad, m_lio_int, m_leds,
          cpu_irq1, cpu_irq2, cpu_irq4, soft_reset_scheduled, dma_steps,
          access, ev>>

lioVars == <<m_lio_isr, m_lio_int, cpu_irq1>>
dmaVars == <<m_dmalo, m_dmahi, dma_steps>>
cfgVars == <<m_cpucfg, m_leds, soft_reset_scheduled>>
parityVars == <<m_parity, m_parity_alloc, m_parity_mph, m_parity_bad>>
errVars == <<m_parerr, m_erradr>>
irqVars == <<cpu_irq2, cpu_irq4>>

-----------------------------------------------------------------------------
(* Program constants. *)

CPUCFG_SIN == 512        \* 0x0200
CPUCFG_RPAR == 1024      \* 0x0400
CPUCFG_BAD == 8192       \* 0x2000

PAR_LAN == 1
PAR_DMA == 2
PAR_CPU == 4
PAR_VME == 8
PAR_B0 == 128            \* 0x80
PAR_ALL == 240           \* 0xf0

ram_size == 8

-----------------------------------------------------------------------------
(* Bounds of the model. *)

MaxDmaSteps == 3

\* values software writes to the configuration register: every setting of
\* the parity bits, and a soft reset with LEDs lit
CfgValues == {0, CPUCFG_RPAR, CPUCFG_BAD, CPUCFG_BAD + CPUCFG_RPAR,
              CPUCFG_SIN + 21}

\* values software writes to the DMA low register: 0x0000, 0x0ffe, 0x0fff,
\* 0x7fff, 0x8000, 0x8ffe, 0x8fff, 0xffff
DmaLoValues == {0, 4094, 4095, 32767, 32768, 36862, 36863, 65535}

\* values software writes to the DMA high register: 0, 1, 0x07ff, 0xfffe, 0xffff
DmaHiValues == {0, 1, 2047, 65534, 65535}

\* interrupt numbers lio_interrupt can be called with
LioNumbers == 0 .. 7

\* addresses of the RAM words accessed: two bitmap bytes, both nibbles
RamOffsets == {4, 8}

\* 32-bit lane masks of RAM accesses, written as their four bytes, bits 31..24
\* first (the model checker's integers are 32-bit signed): 0xff000000,
\* 0x0000ffff, 0xffffffff
MemMasks == {<<255, 0, 0, 0>>, <<0, 0, 255, 255>>, <<255, 255, 255, 255>>}

\* the inputs of the whole machine, fewer of each kind
MachineCfgValues == {0, CPUCFG_BAD + CPUCFG_RPAR, CPUCFG_SIN}
MachineDmaLoValues == {4, 32772}
MachineDmaHiValues == {0}
MachineLioNumbers == {4}
MachineRamOffsets == {4}
MachineMemMasks == {<<255, 255, 0, 0>>}

-----------------------------------------------------------------------------
(* Bit arithmetic on unsigned integers. *)

RECURSIVE And(_, _)
And(a, b) ==
    IF a = 0 \/ b = 0 THEN 0
    ELSE (a % 2) * (b % 2) + 2 * And(a \div 2, b \div 2)

RECURSIVE Or(_, _)
Or(a, b) ==
    IF a = 0 THEN b
    ELSE IF b = 0 THEN a
    ELSE (IF a % 2 = 1 \/ b % 2 = 1 THEN 1 ELSE 0) + 2 * Or(a \div 2, b \div 2)

RECURSIVE Xor(_, _)
Xor(a, b) ==
    IF a = 0 THEN b
    ELSE IF b = 0 THEN a
    ELSE ((a + b) % 2) + 2 * Xor(a \div 2, b \div 2)

\* ~x in w bits
Not(x, w) == (2 ^ w - 1) - (x % (2 ^ w))

\* BIT(x, n)
BIT(x, n) == (x \div (2 ^ n)) % 2

\* BIT(mem_mask, 24 - byte * 8, 8) of a lane mask written as four bytes
MaskByte(mem_mask, byte) == mem_mask[byte + 1]

-----------------------------------------------------------------------------
(* The calls a handler makes into other devices. *)

Call(name, arg) == [call |-> name, arg |-> arg]

Calls(s) == {s[i].call : i \in 1 .. Len(s)}

-----------------------------------------------------------------------------
(* machine_start followed by the machine_reset of power-on. *)

Init ==
    /\ m_cpucfg = 0
    /\ m_lio_isr = 255
    /\ m_lio_int = FALSE
    /\ m_dmalo = 0
    /\ m_dmahi = 0
    /\ m_parity_bad = 0
    /\ m_parity = [i \in {} |-> 0]
    /\ m_parity_alloc = FALSE
    /\ m_parity_mph = FALSE
    /\ m_erradr = 0
    /\ m_parerr = 0
    /\ m_leds = [i \in 0 .. 4 |-> 0]
    /\ cpu_irq1 = 0
    /\ cpu_irq2 = 0
    /\ cpu_irq4 = 0
    /\ soft_reset_scheduled = FALSE
    /\ dma_steps = 0
    /\ access = "none"
    /\ ev = <<>>

-----------------------------------------------------------------------------
(* Interrupt aggregator. *)

\* the status byte after recording the state of one source
lio_isr_record(isr, number, state) ==
    IF state # 0
    THEN Or(isr, 2 ^ number)
    ELSE And(isr, Not(2 ^ number, 8))

lio_int_of_any(isr) == (isr # 255)

\* bool const lio_int = !m_lio_isr
lio_int_of(isr) == (isr = 0)

lio_edge_always(prev, now) == TRUE

\* if (m_lio_int ^ lio_int)
lio_edge(prev, now) == (prev # now)

lio_interrupt(number, state) ==
    LET isr == lio_isr_record(m_lio_isr, number, state)
        lio_int == lio_int_of(isr)
    IN  /\ m_lio_isr' = isr
        /\ IF lio_edge(m_lio_int, lio_int)
           THEN /\ m_lio_int' = lio_int
                /\ cpu_irq1' = (IF lio_int THEN 1 ELSE 0)
                /\ ev' = <<Call("set_input_line_IRQ1", IF lio_int THEN 1 ELSE 0)>>
           ELSE /\ UNCHANGED <<m_lio_int, cpu_irq1>>
                /\ ev' = <<>>
        /\ access' = "none"
        /\ UNCHANGED irqVars
        /\ UNCHANGED <<dmaVars, cfgVars, parityVars, errVars>>

\* the interrupt status register: return m_lio_isr
lio_isr_r == m_lio_isr

-----------------------------------------------------------------------------
(* Bad-parity emulation: the shadow bitmap and the memory tap. *)

\* m_parity[i]; bytes that are zero are not stored
ParityAt(parity, i) == IF i \in DOMAIN parity THEN parity[i] ELSE 0

\* m_parity[i] = v
ParityPut(parity, i, v) ==
    [j \in (DOMAIN parity \ {i}) \cup (IF v # 0 THEN {i} ELSE {}) |->
        IF j = i THEN v ELSE parity[j]]

\* std::make_unique<u8[]>(n): n zero bytes; also the value kept for a null pointer
NoParity == [i \in {} |-> 0]

\* BIT(m_parity[offset >> 3], BIT(offset, 2) * 4 + byte)
ParityBit(parity, offset, byte) ==
    BIT(ParityAt(parity, offset \div 8), BIT(offset, 2) * 4 + byte)

\* the address range of the parity tap
InTap(offset) == offset >= 0 /\ offset <= ram_size * (2 ^ 20) - 1

lane_error_flags_dma(byte) == Or(PAR_B0 \div (2 ^ byte), PAR_DMA)

\* (PAR_B0 >> byte) | PAR_CPU
lane_error_flags(byte) == Or(PAR_B0 \div (2 ^ byte), PAR_CPU)

lane_checked_any(mem_mask, parity, offset, byte) ==
    ParityBit(parity, offset, byte) = 1

\* BIT(mem_mask, 24 - byte * 8, 8) && BIT(m_parity[offset >> 3], ...)
lane_checked(mem_mask, parity, offset, byte) ==
    MaskByte(mem_mask, byte) # 0 /\ ParityBit(parity, offset, byte) = 1

parerr_overwrite(parerr, flags) == flags

\* m_parerr |= flags
parerr_accumulate(parerr, flags) == Or(parerr, flags)

\* the loop of parity_r, from lane byte on; st = [parerr, error]
RECURSIVE parity_r_loop(_, _, _, _, _)
parity_r_loop(byte, offset, mem_mask, parity, st) ==
    IF byte >= 4 THEN st
    ELSE parity_r_loop(byte + 1, offset, mem_mask, parity,
            IF lane_checked(mem_mask, parity, offset, byte)
            THEN [parerr |-> parerr_accumulate(st.parerr, lane_error_flags(byte)),
                  error |-> TRUE]
            ELSE st)

parity_r_ungated(offset, mem_mask, cpucfg, parity, st) ==
    LET r == parity_r_loop(0, offset, mem_mask, parity,
                           [parerr |-> st.parerr, error |-> FALSE])
    IN  IF r.error
        THEN [parerr |-> r.parerr, erradr |-> offset, berr |-> TRUE]
        ELSE [parerr |-> r.parerr, erradr |-> st.erradr, berr |-> FALSE]

\* parity_r on st = [parerr, erradr]: the new [parerr, erradr, berr]
parity_r(offset, mem_mask, cpucfg, parity, st) ==
    IF And(cpucfg, CPUCFG_RPAR) # 0
    THEN LET r == parity_r_loop(0, offset, mem_mask, parity,
                                 [parerr |-> st.parerr, error |-> FALSE])
         IN  IF r.error
             THEN [parerr |-> r.parerr, erradr |-> offset, berr |-> TRUE]
             ELSE [parerr |-> r.parerr, erradr |-> st.erradr, berr |-> FALSE]
    ELSE [parerr |-> st.parerr, erradr |-> st.erradr, berr |-> FALSE]

RECURSIVE parity_w_set_recount(_, _, _, _)
parity_w_set_recount(byte, offset, mem_mask, st) ==
    IF byte >= 4 THEN st
    ELSE parity_w_set_recount(byte + 1, offset, mem_mask,
            IF MaskByte(mem_mask, byte) # 0
            THEN [parity |-> ParityPut(st.parity, offset \div 8,
                                Or(ParityAt(st.parity, offset \div 8),
                                   2 ^ (BIT(offset, 2) * 4 + byte))),
                  bad |-> st.bad + 1]
            ELSE st)

\* the first loop of parity_w (write bad parity), from lane byte on;
\* st = [parity, bad]
RECURSIVE parity_w_set(_, _, _, _)
parity_w_set(byte, offset, mem_mask, st) ==
    IF byte >= 4 THEN st
    ELSE parity_w_set(byte + 1, offset, mem_mask,
            IF MaskByte(mem_mask, byte) # 0 /\ ParityBit(st.parity, offset, byte) = 0
            THEN [parity |-> ParityPut(st.parity, offset \div 8,
                                Or(ParityAt(st.parity, offset \div 8),
                                   2 ^ (BIT(offset, 2) * 4 + byte))),
                  bad |-> st.bad + 1]
            ELSE st)

\* the second loop of parity_w (write good parity); m_parity_bad is a u32
\* and 0xffffffff is written -1
RECURSIVE parity_w_clr(_, _, _, _)
parity_w_clr(byte, offset, mem_mask, st) ==
    IF byte >= 4 THEN st
    ELSE parity_w_clr(byte + 1, offset, mem_mask,
            IF MaskByte(mem_mask, byte) # 0 /\ ParityBit(st.parity, offset, byte) = 1
            THEN [parity |-> ParityPut(st.parity, offset \div 8,
                                And(ParityAt(st.parity, offset \div 8),
                                    Not(2 ^ (BIT(offset, 2) * 4 + byte), 8))),
                  bad |-> st.bad - 1]
            ELSE st)

parity_healed_early(bad) == bad <= 1

\* if (m_parity_bad == 0)
parity_healed(bad) == (bad = 0)

parity_w_keep_tap(offset, mem_mask, cpucfg, st) ==
    IF And(cpucfg, CPUCFG_BAD) # 0
    THEN LET r == parity_w_set(0, offset, mem_mask,
                               [parity |-> st.parity, bad |-> st.bad])
         IN  [parity |-> r.parity, bad |-> r.bad, alloc |-> st.alloc, mph |-> st.mph]
    ELSE LET r == parity_w_clr(0, offset, mem_mask,
                               [parity |-> st.parity, bad |-> st.bad])
         IN  IF parity_healed(r.bad)
             THEN [parity |-> NoParity, bad |-> r.bad, alloc |-> FALSE, mph |-> st.mph]
             ELSE [parity |-> r.parity, bad |-> r.bad, alloc |-> st.alloc, mph |-> st.mph]

\* parity_w on st = [parity, bad, alloc, mph]: the new st
parity_w(offset, mem_mask, cpucfg, st) ==
    IF And(cpucfg, CPUCFG_BAD) # 0
    THEN LET r == parity_w_set(0, offset, mem_mask,
                               [parity |-> st.parity, bad |-> st.bad])
         IN  [parity |-> r.parity, bad |-> r.bad, alloc |-> st.alloc, mph |-> st.mph]
    ELSE LET r == parity_w_clr(0, offset, mem_mask,
                               [parity |-> st.parity, bad |-> st.bad])
         IN  IF parity_healed(r.bad)
             THEN [parity |-> NoParity, bad |-> r.bad, alloc |-> FALSE, mph |-> FALSE]
             ELSE [parity |-> r.parity, bad |-> r.bad, alloc |-> st.alloc, mph |-> st.mph]

\* a read of the program space at a word address: the tap runs parity_r when
\* it is installed over the address
space_read(offset, mem_mask) ==
    IF m_parity_mph /\ InTap(offset)
    THEN parity_r(offset, mem_mask, m_cpucfg, m_parity,
                  [parerr |-> m_parerr, erradr |-> m_erradr])
    ELSE [parerr |-> m_parerr, erradr |-> m_erradr, berr |-> FALSE]

\* a write of the program space at a word address
space_write(offset, mem_mask) ==
    IF m_parity_mph /\ InTap(offset)
    THEN parity_w(offset, mem_mask, m_cpucfg,
                  [parity |-> m_parity, bad |-> m_parity_bad,
                   alloc |-> m_parity_alloc, mph |-> m_parity_mph])
    ELSE [parity |-> m_parity, bad |-> m_parity_bad,
          alloc |-> m_parity_alloc, mph |-> m_parity_mph]

\* the calls a tapped read makes
read_calls(r) == IF r.berr THEN <<Call("berr_w", 1)>> ELSE <<>>

\* the calls a tapped write makes
write_calls(w) ==
    IF m_parity_mph /\ ~w.mph THEN <<Call("parity_mph_remove", 0)>> ELSE <<>>

\* the CPU loads from RAM
ram_r(offset, mem_mask) ==
    LET r == space_read(offset, mem_mask)
    IN  /\ m_parerr' = r.parerr
        /\ m_erradr' = r.erradr
        /\ ev' = read_calls(r)
        /\ access' = "read"
        /\ UNCHANGED irqVars
        /\ UNCHANGED <<lioVars, dmaVars, cfgVars, parityVars>>

\* the CPU stores to RAM
ram_w(offset, mem_mask) ==
    LET w == space_write(offset, mem_mask)
    IN  /\ m_parity' = w.parity
        /\ m_parity_bad' = w.bad
        /\ m_parity_alloc' = w.alloc
        /\ m_parity_mph' = w.mph
        /\ ev' = write_calls(w)
        /\ access' = "write"
        /\ UNCHANGED irqVars
        /\ UNCHANGED <<lioVars, dmaVars, cfgVars, errVars>>

-----------------------------------------------------------------------------
(* CPU configuration register. *)

\* if (BIT(data, 9))
soft_reset_requested(cpucfg, data) == BIT(data, 9) = 1

cpucfg_parity_free(cpucfg, data, st) ==
    IF And(Xor(cpucfg, data), CPUCFG_BAD) # 0
    THEN IF And(data, CPUCFG_BAD) # 0 /\ ~st.alloc
         THEN [parity |-> NoParity, bad |-> st.bad, alloc |-> TRUE, mph |-> TRUE]
         ELSE IF And(data, CPUCFG_BAD) = 0
              THEN [parity |-> NoParity, bad |-> 0, alloc |-> FALSE, mph |-> FALSE]
              ELSE st
    ELSE st

\* if ((m_cpucfg ^ data) & CPUCFG_BAD) { if ((data & CPUCFG_BAD) && !m_parity)
\* { m_parity = make_unique...; m_parity_mph = install_readwrite_tap... } }
\* on st = [parity, bad, alloc, mph]: the new st
cpucfg_parity(cpucfg, data, st) ==
    IF And(Xor(cpucfg, data), CPUCFG_BAD) # 0
    THEN IF And(data, CPUCFG_BAD) # 0 /\ ~st.alloc
         THEN [parity |-> NoParity, bad |-> st.bad, alloc |-> TRUE, mph |-> TRUE]
         ELSE st
    ELSE st

cpucfg_stored_masked(data) == And(data, 65535 - CPUCFG_SIN)

\* m_cpucfg = data
cpucfg_stored(data) == data

cpucfg_w(data) ==
    LET reset == soft_reset_requested(m_cpucfg, data)
        st == [parity |-> m_parity, bad |-> m_parity_bad,
               alloc |-> m_parity_alloc, mph |-> m_parity_mph]
        p == cpucfg_parity(m_cpucfg, data, st)
    IN  /\ m_leds' = [i \in 0 .. 4 |-> BIT(data, i)]
        /\ soft_reset_scheduled' = (soft_reset_scheduled \/ reset)
        /\ m_parity' = p.parity
        /\ m_parity_bad' = p.bad
        /\ m_parity_alloc' = p.alloc
        /\ m_parity_mph' = p.mph
        /\ m_cpucfg' = cpucfg_stored(data)
        /\ ev' = (IF reset THEN <<Call("schedule_soft_reset", 0)>> ELSE <<>>)
                 \o (IF ~st.mph /\ p.mph THEN <<Call("install_readwrite_tap", 0)>> ELSE <<>>)
        /\ access' = "write"
        /\ UNCHANGED irqVars
        /\ UNCHANGED <<lioVars, dmaVars, errVars>>

\* u16 cpucfg_r() { return m_cpucfg; }
cpucfg_r == m_cpucfg

\* m_erradr = 0; m_parerr = 0
machine_reset_regs == m_erradr' = 0 /\ m_parerr' = 0

\* the soft reset the configuration register asked for
machine_reset ==
    /\ soft_reset_scheduled
    /\ soft_reset_scheduled' = FALSE
    /\ machine_reset_regs
    /\ ev' = <<>>
    /\ access' = "none"
    /\ UNCHANGED irqVars
    /\ UNCHANGED <<lioVars, dmaVars, m_cpucfg, m_leds, parityVars>>

-----------------------------------------------------------------------------
(* Parity error registers. *)

parerr_ack_all_sources(parerr, offset) == And(parerr, Not(PAR_ALL + 15, 8))

\* m_parerr &= ~(PAR_ALL | (1U << offset))
parerr_ack(parerr, offset) == And(parerr, Not(Or(PAR_ALL, 2 ^ offset), 8))

parerr_ack_r(offset) ==
    /\ m_parerr' = parerr_ack(m_parerr, offset)
    /\ ev' = <<>>
    /\ access' = "read"
    /\ UNCHANGED irqVars
    /\ UNCHANGED <<lioVars, dmaVars, cfgVars, parityVars, m_erradr>>

parerr_ack_w(offset, data) ==
    /\ m_parerr' = parerr_ack(m_parerr, offset)
    /\ ev' = <<>>
    /\ access' = "write"
    /\ UNCHANGED irqVars
    /\ UNCHANGED <<lioVars, dmaVars, cfgVars, parityVars, m_erradr>>

\* return m_parerr ^ PAR_ALL
parerr_r == Xor(m_parerr, PAR_ALL)

\* the CPU reads the parity error status register: the handler returns
\* parerr_r and assigns nothing
parerr_status_r ==
    /\ ev' = <<>>
    /\ access' = "read"
    /\ UNCHANGED <<lioVars, dmaVars, cfgVars, parityVars, errVars, irqVars>>

\* return m_erradr
erradr_r == m_erradr

-----------------------------------------------------------------------------
(* DMA engine. *)

dmalo_w(data) ==
    /\ m_dmalo' = data
    /\ ev' = <<>>
    /\ access' = "write"
    /\ UNCHANGED irqVars
    /\ UNCHANGED <<lioVars, m_dmahi, dma_steps, cfgVars, parityVars, errVars>>

dmahi_w(data) ==
    /\ m_dmahi' = data
    /\ ev' = <<>>
    /\ access' = "write"
    /\ UNCHANGED irqVars
    /\ UNCHANGED <<lioVars, m_dmalo, dma_steps, cfgVars, parityVars, errVars>>

\* (u32(m_dmahi) << 12) | (m_dmalo & 0x0fff)
dma_addr(dmahi, dmalo) == Or(dmahi * (2 ^ 12), And(dmalo, 4095))

dma_to_memory_never(dmalo) == FALSE

\* if (m_dmalo & 0x8000)
dma_to_memory(dmalo) == And(dmalo, 32768) # 0

dmalo_next_16(dmalo) == (dmalo + 1) % 65536

dmalo_next_premasked(dmalo) == And(And(dmalo, 36863) + 1, 36863)

\* m_dmalo = (m_dmalo + 1) & 0x8fff
dmalo_next(dmalo) == And(dmalo + 1, 36863)

\* if (!(m_dmalo & 0xfff)) m_dmahi++, on the new m_dmalo
dmahi_next(dmahi, dmalo) ==
    IF And(dmalo, 4095) = 0 THEN (dmahi + 1) % 65536 ELSE dmahi

\* the 32-bit word a byte address lies in
byte_offset(addr) == addr - (addr % 4)

\* the lane mask of a byte address on the big-endian 32-bit bus
byte_mask(addr) == [i \in 1 .. 4 |-> IF i = (addr % 4) + 1 THEN 255 ELSE 0]

scsi_drq(state) ==
    IF state # 0
    THEN LET addr == dma_addr(m_dmahi, m_dmalo)
             lo == dmalo_next(m_dmalo)
         IN  /\ dma_steps < MaxDmaSteps
             /\ dma_steps' = dma_steps + 1
             /\ IF dma_to_memory(m_dmalo)
                THEN LET w == space_write(byte_offset(addr), byte_mask(addr))
                     IN  /\ m_parity' = w.parity
                         /\ m_parity_bad' = w.bad
                         /\ m_parity_alloc' = w.alloc
                         /\ m_parity_mph' = w.mph
                         /\ ev' = <<Call("scsi_dma_r", 0), Call("write_byte", addr)>>
                                  \o write_calls(w)
                         /\ UNCHANGED errVars
                ELSE LET r == space_read(byte_offset(addr), byte_mask(addr))
                     IN  /\ m_parerr' = r.parerr
                         /\ m_erradr' = r.erradr
                         /\ ev' = <<Call("read_byte", addr)>> \o read_calls(r)
                                  \o <<Call("scsi_dma_w", 0)>>
                         /\ UNCHANGED parityVars
             /\ m_dmalo' = lo
             /\ m_dmahi' = dmahi_next(m_dmahi, lo)
             /\ access' = "none"
             /\ UNCHANGED irqVars
             /\ UNCHANGED <<lioVars, cfgVars>>
    ELSE /\ ev' = <<>>
         /\ access' = "none"
         /\ UNCHANGED irqVars
         /\ UNCHANGED <<lioVars, dmaVars, cfgVars, parityVars, errVars>>

-----------------------------------------------------------------------------
(* Specifications. *)

\* the interrupt aggregator under every interrupt number
NextLio ==
    \/ \E number \in LioNumbers, state \in {0, 1} : lio_interrupt(number, state)

SpecLio == Init /\ [][NextLio]_vars

\* the DMA engine with its registers
NextDma ==
    \/ \E data \in DmaLoValues : dmalo_w(data)
    \/ \E data \in DmaHiValues : dmahi_w(data)
    \/ \E state \in {0, 1} : scsi_drq(state)

SpecDma == Init /\ [][NextDma]_vars

\* the configuration register, RAM accesses through the tap and the parity
\* error registers
NextParity ==
    \/ \E data \in CfgValues : cpucfg_w(data)
    \/ machine_reset
    \/ \E offset \in RamOffsets, mem_mask \in MemMasks : ram_r(offset, mem_mask)
    \/ \E offset \in RamOffsets, mem_mask \in MemMasks : ram_w(offset, mem_mask)
    \/ \E offset \in 0 .. 3 : parerr_ack_r(offset)
    \/ \E offset \in 0 .. 3 : parerr_ack_w(offset, 0)

SpecParity == Init /\ [][NextParity]_vars

\* the whole machine: every handler that reads or writes a member of the
\* driver
Next ==
    \/ \E number \in MachineLioNumbers, state \in {0, 1} : lio_interrupt(number, state)
    \/ \E data \in MachineDmaLoValues : dmalo_w(data)
    \/ \E data \in MachineDmaHiValues : dmahi_w(data)
    \/ \E state \in {0, 1} : scsi_drq(state)
    \/ \E data \in MachineCfgValues : cpucfg_w(data)
    \/ machine_reset
    \/ \E offset \in MachineRamOffsets, mem_mask \in MachineMemMasks : ram_r(offset, mem_mask)
    \/ \E offset \in MachineRamOffsets, mem_mask \in MachineMemMasks : ram_w(offset, mem_mask)
    \/ \E offset \in 0 .. 3 : parerr_ack_r(offset)
    \/ \E offset \in 0 .. 3 : parerr_ack_w(offset, 0)
    \/ parerr_status_r

Spec == Init /\ [][Next]_vars

-----------------------------------------------------------------------------
(* Interrupt aggregator: properties, under SpecLio. *)

\* C1: in every state reachable by lio_interrupt callbacks with numbers 0..7,
\* the aggregated interrupt flag m_lio_int, and with it the level driven onto
\* the CPU's IRQ1 input, is asserted iff the interrupt status byte is zero,
\* that is iff all eight sources are asserted at once.
C1_AggregateIffAllZero ==
    /\ m_lio_int <=> (m_lio_isr = 0)
    /\ (cpu_irq1 = 1) <=> (m_lio_isr = 0)

\* all eight sources asserted, and the line raised
C1_Witness == m_lio_isr = 0 /\ m_lio_int /\ cpu_irq1 = 1

\* C2: a lio_interrupt callback drives the CPU's IRQ1 input only when the
\* recomputed aggregate differs from the level driven before: a callback that
\* leaves the aggregate unchanged makes no update, every update carries the
\* opposite of the previous one, and with all eight sources asserted the
\* deassertion of any one source makes exactly one deassert update.
C2_EdgeOnly ==
    [][(\E number \in LioNumbers, state \in {0, 1} : lio_interrupt(number, state)) =>
        LET agg == IF m_lio_isr' = 0 THEN 1 ELSE 0
        IN  /\ (agg = cpu_irq1) => (ev' = <<>> /\ cpu_irq1' = cpu_irq1)
            /\ (agg # cpu_irq1) =>
                   (ev' = <<Call("set_input_line_IRQ1", agg)>> /\ cpu_irq1' = agg)
            /\ (m_lio_isr = 0 /\ m_lio_isr' # 0) =>
                   ev' = <<Call("set_input_line_IRQ1", 0)>>]_vars

\* one source has left the full set, and the line was dropped by that callback
C2_Witness ==
    /\ ev = <<Call("set_input_line_IRQ1", 0)>>
    /\ m_lio_isr # 0
    /\ cpu_irq1 = 0

-----------------------------------------------------------------------------
(* DMA engine: properties, under SpecDma. *)

\* C3: one transfer step sets the low register to (low + 1) masked with 0x8fff
\* (bit 15 and the low 12 bits of low + 1) and increments the 16-bit high
\* register by one exactly when the low 12 bits of the new low register are
\* zero; from low = 0x0ffe the first step gives 0x0fff with high unchanged and
\* the second gives 0x0000 with high incremented.
C3_DmaStep ==
    [][scsi_drq(1) =>
        /\ m_dmalo' = (((m_dmalo + 1) \div 32768) % 2) * 32768 + ((m_dmalo + 1) % 4096)
        /\ m_dmahi' = IF m_dmalo' % 4096 = 0 THEN (m_dmahi + 1) % 65536 ELSE m_dmahi
        /\ (m_dmalo = 4094) => (m_dmalo' = 4095 /\ m_dmahi' = m_dmahi)
        /\ (m_dmalo = 4095) => (m_dmalo' = 0 /\ m_dmahi' = (m_dmahi + 1) % 65536)]_vars

\* the second of two transfers from low = 0x0ffe, high = 0: it was made at
\* address 0x0fff and carried into the high register
C3_Witness ==
    /\ dma_steps >= 2
    /\ Len(ev) >= 1 /\ ev[1] = Call("read_byte", 4095)
    /\ m_dmalo = 0
    /\ m_dmahi = 1

\* the memory and peripheral accesses among the calls of a handler
BusCalls(s) ==
    SelectSeq(s, LAMBDA c : c.call \in {"read_byte", "write_byte", "scsi_dma_r", "scsi_dma_w"})

\* C4: an active data request moves exactly one byte at the address
\* (high << 12) | (low & 0x0fff) of the registers before the step, from the
\* peripheral to memory when bit 15 of the low register is set and from
\* memory to the peripheral otherwise, and advances the address once; an
\* inactive data request moves nothing and leaves both registers unchanged.
C4_OneBytePerDrq ==
    [][/\ scsi_drq(1) =>
            LET addr == m_dmahi * 4096 + (m_dmalo % 4096)
            IN  /\ BusCalls(ev') =
                       IF m_dmalo >= 32768
                       THEN <<Call("scsi_dma_r", 0), Call("write_byte", addr)>>
                       ELSE <<Call("read_byte", addr), Call("scsi_dma_w", 0)>>
                /\ m_dmalo' % 4096 = (m_dmalo + 1) % 4096
                /\ dma_steps' = dma_steps + 1
       /\ scsi_drq(0) => (ev' = <<>> /\ m_dmalo' = m_dmalo /\ m_dmahi' = m_dmahi)]_vars

\* a byte went from the peripheral to memory at 0x1fff (high = 1, low = 0x8fff)
C4_Witness ==
    /\ ev = <<Call("scsi_dma_r", 0), Call("write_byte", 8191)>>
    /\ m_dmalo = 32768
    /\ m_dmahi = 2

-----------------------------------------------------------------------------
(* Configuration register: properties. *)

\* C5: a configuration register write requests a soft reset only when bit 9
\* goes from 0 in the stored word to 1 in the written value; a write that
\* finds bit 9 already set in the stored word requests none.
C5_ResetOnlyOnEdge ==
    [][\A data \in CfgValues :
          (cpucfg_w(data) /\ "schedule_soft_reset" \in Calls(ev')) =>
              (BIT(m_cpucfg, 9) = 0 /\ BIT(data, 9) = 1)]_vars

\* C6: a read of the configuration register returns the value of the most
\* recent write to it, or 0 when there was none since initialisation; no
\* handler but the write (and so no RAM access, interrupt or DMA callback,
\* acknowledge or soft reset) changes the stored word.
C6_CfgReadback ==
    /\ cpucfg_r = 0
    /\ [][/\ \A data \in MachineCfgValues : cpucfg_w(data) => cpucfg_r' = data
          /\ ~(\E data \in MachineCfgValues : cpucfg_w(data)) => cpucfg_r' = cpucfg_r]_vars

\* the register still reads the value written last, 0x0200, after the soft
\* reset it asked for has run, with lanes marked bad by earlier writes, an
\* interrupt source asserted and DMA transfers made
C6_Witness ==
    /\ cpucfg_r = CPUCFG_SIN
    /\ ~soft_reset_scheduled
    /\ m_parity_bad > 0
    /\ m_lio_isr # 255
    /\ dma_steps > 0

-----------------------------------------------------------------------------
(* Bad-parity emulation: properties. *)

\* the byte lanes the bitmap marks bad: <<index, bit>>
BadLanes(parity) ==
    {<<i, b>> \in (DOMAIN parity) \X (0 .. 7) : (parity[i] \div (2 ^ b)) % 2 = 1}

\* the byte lanes of an access: the lanes of its word that its mask enables
AccessLanes(offset, mem_mask) ==
    {<<offset \div 8, ((offset \div 4) % 2) * 4 + byte>> : byte \in {b \in 0 .. 3 : mem_mask[b + 1] # 0}}

\* C7: a 0-to-1 transition of the bad-parity bit leaves the bitmap allocated
\* and the tap installed; while the bad-bit count is above zero the bitmap
\* stays allocated and the tap installed, so a deallocation happens only in a
\* write with injection disabled that rewrites every lane still marked bad and
\* brings the count to zero; every such write deallocates the bitmap and
\* removes the tap, and every other write through the tap keeps both.
C7_ParityLifecycle ==
    /\ [](m_parity_bad > 0 => (m_parity_alloc /\ m_parity_mph))
    /\ [][/\ (BIT(m_cpucfg, 13) = 0 /\ BIT(m_cpucfg', 13) = 1) =>
                   (m_parity_alloc' /\ m_parity_mph' /\ m_parity' = m_parity)
          /\ ((m_parity_alloc /\ ~m_parity_alloc') \/ (m_parity_mph /\ ~m_parity_mph')) =>
                   /\ m_parity_bad' = 0
                   /\ BIT(m_cpucfg, 13) = 0
                   /\ ~m_parity_alloc' /\ ~m_parity_mph'
                   /\ \E offset \in RamOffsets, mem_mask \in MemMasks :
                          /\ BadLanes(m_parity) \subseteq AccessLanes(offset, mem_mask)
                          /\ ram_w(offset, mem_mask)
          /\ (m_parity_mph /\ access' = "write" /\ m_cpucfg' = m_cpucfg) =>
                \A offset \in RamOffsets, mem_mask \in MemMasks :
                    ram_w(offset, mem_mask) =>
                        IF /\ BIT(m_cpucfg, 13) = 0
                           /\ BadLanes(m_parity) \subseteq AccessLanes(offset, mem_mask)
                        THEN ~m_parity_alloc' /\ ~m_parity_mph' /\ m_parity_bad' = 0
                        ELSE m_parity_alloc' /\ m_parity_mph']_vars

\* six lanes of two words were marked bad, injection was disabled, and the
\* write of the last of them has just removed the tap
C7_Witness ==
    /\ ev = <<Call("parity_mph_remove", 0)>>
    /\ ~m_parity_alloc
    /\ ~m_parity_mph
    /\ m_parity_bad = 0
    /\ BIT(m_cpucfg, 13) = 0

\* C8: with parity checking enabled and the tap installed, a read raises the
\* bus error iff a lane its mask enables is marked bad; it then latches the
\* read address and sets the flag of each faulting lane and the CPU flag; a
\* lane that is bad but not enabled gets no flag and raises no bus error.
C8_ParityDetect ==
    [][\A offset \in RamOffsets, mem_mask \in MemMasks :
          (ram_r(offset, mem_mask) /\ BIT(m_cpucfg, 10) = 1 /\ m_parity_mph) =>
              LET faulting == {byte \in 0 .. 3 :
                                  /\ mem_mask[byte + 1] # 0
                                  /\ <<offset \div 8, ((offset \div 4) % 2) * 4 + byte>>
                                         \in BadLanes(m_parity)}
              IN  /\ ("berr_w" \in Calls(ev')) <=> (faulting # {})
                  /\ (faulting # {}) =>
                         /\ m_erradr' = offset
                         /\ BIT(m_parerr', 2) = 1
                         /\ \A byte \in faulting : BIT(m_parerr', 7 - byte) = 1
                  /\ \A byte \in (0 .. 3) \ faulting :
                         BIT(m_parerr', 7 - byte) = BIT(m_parerr, 7 - byte)
                  /\ (faulting = {}) => (m_parerr' = m_parerr /\ m_erradr' = m_erradr)]_vars

\* a read of lane 0 of the word at 8, all four lanes of which are bad, has
\* raised the bus error and flagged lane 0 alone
C8_Witness ==
    /\ ev = <<Call("berr_w", 1)>>
    /\ m_erradr = 8
    /\ m_parerr = PAR_B0 + PAR_CPU
    /\ ParityAt(m_parity, 1) = 15

\* C9 as claimed: a parity error flag, once set, stays set across every
\* operation but a write to the acknowledge register of its source.
C9_ClearedOnlyByAckWrite ==
    [][\A k \in 0 .. 7 :
          (BIT(m_parerr, k) = 1 /\ BIT(m_parerr', k) = 0) =>
              (access' = "write" /\ \E offset \in 0 .. 3 : parerr_ack_w(offset, 0))]_vars

\* C9, amended: a parity error flag, once set, stays set across every
\* operation but an access, read or write, to a parity error acknowledge
\* register, which clears the four lane flags and the flag of the source at
\* the accessed offset and no other, and a machine reset.
C9_ClearedOnlyByAckOrReset ==
    [][/\ (\E k \in 0 .. 7 : BIT(m_parerr, k) = 1 /\ BIT(m_parerr', k) = 0) =>
              \/ machine_reset
              \/ \E offset \in 0 .. 3 : parerr_ack_r(offset) \/ parerr_ack_w(offset, 0)
       /\ \A offset \in 0 .. 3 :
              (parerr_ack_r(offset) \/ parerr_ack_w(offset, 0)) =>
                  \A k \in (0 .. 3) \ {offset} : BIT(m_parerr', k) = BIT(m_parerr, k)]_vars

\* flags latched by a faulting read are still set after a later read that
\* raised no bus error and a configuration write
C9_Witness ==
    /\ m_parerr = PAR_B0 + 64 + PAR_CPU
    /\ access = "read"
    /\ ev = <<>>
    /\ BIT(m_cpucfg, 10) = 0
    /\ m_parity_alloc

\* C10: no configuration register write deallocates the bitmap or removes the
\* tap, and a 1-to-0 transition of the bad-parity bit leaves bitmap, tap and
\* bad-bit count unchanged; the tap is removed only by a write through the
\* tap, by the CPU or the DMA engine, made while injection is disabled and
\* leaving the bad-bit count at zero.
C10_OnlyHealingWriteFrees ==
    [][/\ \A data \in MachineCfgValues :
            cpucfg_w(data) =>
                /\ m_parity_alloc => m_parity_alloc'
                /\ m_parity_mph => m_parity_mph'
                /\ (BIT(m_cpucfg, 13) = 1 /\ BIT(data, 13) = 0) =>
                       (/\ m_parity' = m_parity
                        /\ m_parity_alloc' = m_parity_alloc
                        /\ m_parity_mph' = m_parity_mph
                        /\ m_parity_bad' = m_parity_bad)
       /\ ((m_parity_mph /\ ~m_parity_mph') \/ (m_parity_alloc /\ ~m_parity_alloc')) =>
                /\ BIT(m_cpucfg, 13) = 0
                /\ m_parity_bad' = 0
                /\ \/ access' = "write" /\ \E offset \in MachineRamOffsets,
                                              mem_mask \in MachineMemMasks :
                                                  ram_w(offset, mem_mask)
                   \/ access' = "none" /\ "write_byte" \in Calls(ev')]_vars

\* injection was disabled with lanes still bad: bitmap and tap are kept
C10_Witness ==
    /\ access = "write"
    /\ ev = <<>>
    /\ BIT(m_cpucfg, 13) = 0
    /\ m_parity_bad > 0
    /\ m_parity_alloc
    /\ m_parity_mph

-----------------------------------------------------------------------------
(* Serial controller window: 0x1fb80000 .. 0x1fb800ff, one byte per word. *)

\* required_device_array<scn2681_device, 3> m_duart
DuartCount == 3

\* byte offsets of the window
DuartOffsets == 0 .. 63

\* values software writes to a serial controller register
DuartData == {0, 255}

\* BIT(offset, 0, 2)
duart_index(offset) == offset % 4

\* offset >> 2
duart_reg(offset) == offset \div 4

\* m_duart[index]: the object the access is made on.  An index past the end
\* of the array is undefined behaviour: the access faults, or runs on
\* whatever object lies behind the array.
duart_object(index) ==
    IF index < DuartCount
    THEN {<<"m_duart", index>>}
    ELSE {<<"fault", index>>, <<"stray", index>>}

\* m_duart[BIT(offset, 0, 2)]->read(offset >> 2)
duart_r(offset) ==
    /\ \E obj \in duart_object(duart_index(offset)) :
           ev' = <<Call("duart_read", <<obj, duart_reg(offset)>>)>>
    /\ access' = "read"
    /\ UNCHANGED <<lioVars, dmaVars, cfgVars, parityVars, errVars, irqVars>>

\* m_duart[BIT(offset, 0, 2)]->write(offset >> 2, data)
duart_w(offset, data) ==
    /\ \E obj \in duart_object(duart_index(offset)) :
           ev' = <<Call("duart_write", <<obj, duart_reg(offset), data>>)>>
    /\ access' = "write"
    /\ UNCHANGED <<lioVars, dmaVars, cfgVars, parityVars, errVars, irqVars>>

\* the serial controller window under every offset
NextDuart ==
    \/ \E offset \in DuartOffsets : duart_r(offset)
    \/ \E offset \in DuartOffsets, data \in DuartData : duart_w(offset, data)

SpecDuart == Init /\ [][NextDuart]_vars

\* C11: every read or write at a byte offset 0..63 of the serial controller
\* window is forwarded to one of the three serial controllers, the one the
\* low 2 bits of the offset select, with register index offset >> 2.
C11_ForwardedToExisting ==
    [][\A offset \in DuartOffsets :
          /\ duart_r(offset) =>
                 \E d \in 0 .. 2 :
                     /\ d = offset % 4
                     /\ ev' = <<Call("duart_read", <<<<"m_duart", d>>, offset \div 4>>)>>
          /\ \A data \in DuartData :
                 duart_w(offset, data) =>
                     \E d \in 0 .. 2 :
                         /\ d = offset % 4
                         /\ ev' = <<Call("duart_write",
                                         <<<<"m_duart", d>>, offset \div 4, data>>)>>]_vars

\* an access at an offset whose low 2 bits are 3 was made past the array
C11_Witness ==
    /\ Len(ev) = 1
    /\ ev[1].call \in {"duart_read", "duart_write"}
    /\ ev[1].arg[1][1] \in {"fault", "stray"}
    /\ ev[1].arg[1][2] = DuartCount

-----------------------------------------------------------------------------
(* Address map: the windows of ip4_state::map and the resolution of a CPU   *)
(* byte access to the handler of a window.                                  *)

\* map(first, last).umask32(umask) with a read and/or a write handler; the
\* umask is written as its four bytes, bits 31..24 first
Window(name, first, last, umask, r, w) ==
    [name |-> name, first |-> first, last |-> last, umask |-> umask,
     r |-> r, w |-> w]

\* the entries of the address map, in the order of the source
Windows == <<
    Window("ram", 0, 8388607, <<255, 255, 255, 255>>, TRUE, TRUE),            \* 0x00000000 .. 0x007fffff
    Window("saa_data_w", 526385152, 526385155, <<255, 0, 0, 0>>, FALSE, TRUE),\* 0x1f600000 .. 0x1f600003
    Window("saa_control_w", 526385168, 526385171, <<255, 0, 0, 0>>, FALSE, TRUE),\* 0x1f600010 .. 0x1f600013
    Window("system_id", 528482304, 528482307, <<0, 255, 0, 0>>, TRUE, FALSE), \* 0x1f800000 .. 0x1f800003
    Window("cpucfg", 529006592, 529006595, <<0, 0, 255, 255>>, TRUE, TRUE),   \* 0x1f880000 .. 0x1f880003
    Window("dmalo", 529530880, 529530883, <<0, 0, 255, 255>>, FALSE, TRUE),   \* 0x1f900000 .. 0x1f900003
    Window("dmahi", 529661952, 529661955, <<0, 0, 255, 255>>, FALSE, TRUE),   \* 0x1f920000 .. 0x1f920003
    Window("dma_flush", 529793024, 529793027, <<255, 255, 255, 255>>, FALSE, TRUE),\* 0x1f940000 .. 0x1f940003
    Window("lio_isr", 530055168, 530055171, <<0, 0, 0, 255>>, TRUE, FALSE),   \* 0x1f980000 .. 0x1f980003
    Window("switches", 530186240, 530186243, <<255, 255, 255, 255>>, TRUE, FALSE),\* 0x1f9a0000 .. 0x1f9a0003
    Window("irq4_ack", 530579456, 530579459, <<255, 0, 0, 0>>, TRUE, FALSE),  \* 0x1fa00000 .. 0x1fa00003
    Window("irq2_ack", 530710528, 530710531, <<255, 0, 0, 0>>, TRUE, FALSE),  \* 0x1fa20000 .. 0x1fa20003
    Window("erradr", 530841600, 530841603, <<255, 255, 255, 255>>, TRUE, FALSE),\* 0x1fa40000 .. 0x1fa40003
    Window("scsi_reset_0", 531103744, 531103747, <<255, 0, 0, 0>>, TRUE, FALSE),\* 0x1fa80000 .. 0x1fa80003
    Window("scsi_reset_1", 531103748, 531103751, <<255, 0, 0, 0>>, TRUE, FALSE),\* 0x1fa80004 .. 0x1fa80007
    Window("parerr_ack", 531234816, 531234819, <<255, 255, 255, 255>>, TRUE, TRUE),\* 0x1faa0000 .. 0x1faa0003
    Window("parerr", 531234820, 531234823, <<0, 255, 0, 0>>, TRUE, FALSE),    \* 0x1faa0004 .. 0x1faa0007
    Window("idprom", 531496960, 531496991, <<255, 255, 255, 255>>, TRUE, FALSE),\* 0x1fae0000 .. 0x1fae001f
    Window("scsi_indir_addr", 531628032, 531628035, <<0, 255, 0, 0>>, TRUE, TRUE),\* 0x1fb00000 .. 0x1fb00003
    Window("scsi_indir_reg", 531628288, 531628291, <<0, 255, 0, 0>>, TRUE, TRUE),\* 0x1fb00100 .. 0x1fb00103
    Window("pit", 531890176, 531890191, <<255, 0, 0, 0>>, TRUE, TRUE),        \* 0x1fb40000 .. 0x1fb4000f
    Window("duart", 532152320, 532152575, <<255, 0, 0, 0>>, TRUE, TRUE),      \* 0x1fb80000 .. 0x1fb800ff
    Window("nvram", 532414464, 532422655, <<255, 0, 0, 0>>, TRUE, TRUE),      \* 0x1fbc0000 .. 0x1fbc1fff
    Window("boot", 532676608, 532938751, <<255, 255, 255, 255>>, TRUE, FALSE) \* 0x1fc00000 .. 0x1fc3ffff
>>

\* the address lies in the range of the entry
InWindow_wide(win, addr) == win.first <= addr /\ addr <= win.last + 1

InWindow(win, addr) == win.first <= addr /\ addr <= win.last

\* the entry serves the byte lane of the address: its umask enables the lane
\* (the bus is big-endian: the byte at addr % 4 = 0 is bits 31..24)
LaneServed(win, addr) == win.umask[(addr % 4) + 1] # 0

\* the entries whose handler a byte access at the address runs
Resolve(addr, rw) ==
    SelectSeq(Windows,
              LAMBDA win : /\ InWindow(win, addr)
                           /\ LaneServed(win, addr)
                           /\ IF rw = "read" THEN win.r ELSE win.w)

\* the calls of the handlers, with the offset of the byte in the window
resolve_calls(addr, rw) ==
    LET hit == Resolve(addr, rw)
    IN  [i \in 1 .. Len(hit) |-> Call(hit[i].name, addr - hit[i].first)]

\* the CPU's address space resolves a byte read
map_r(addr) ==
    /\ ev' = resolve_calls(addr, "read")
    /\ access' = "read"
    /\ UNCHANGED <<lioVars, dmaVars, cfgVars, parityVars, errVars, irqVars>>

\* the CPU's address space resolves a byte write
map_w(addr) ==
    /\ ev' = resolve_calls(addr, "write")
    /\ access' = "write"
    /\ UNCHANGED <<lioVars, dmaVars, cfgVars, parityVars, errVars, irqVars>>

\* the addresses probed: from one byte below to 32 bytes above the first
\* address of every window, and from 32 bytes below to 4 bytes above its last
ProbeAddrs ==
    {a \in UNION {{Windows[i].first + k : k \in -1 .. 32} \cup
                  {Windows[i].last + k : k \in -32 .. 4} :
                      i \in DOMAIN Windows} : a >= 0}

NextMap ==
    \/ \E addr \in ProbeAddrs : map_r(addr)
    \/ \E addr \in ProbeAddrs : map_w(addr)

SpecMap == Init /\ [][NextMap]_vars

\* C12: the windows of the address map are pairwise disjoint, so every
\* address resolves to the handler of exactly one window or to none; the
\* address one byte below the first and one byte above the last address of a
\* window never resolves to the handler of that window.
C12_WindowsDisjoint ==
    /\ \A i, j \in DOMAIN Windows :
           i # j => (Windows[i].last < Windows[j].first \/ Windows[j].last < Windows[i].first)
    /\ \A addr \in ProbeAddrs, rw \in {"read", "write"} :
           LET hit == Resolve(addr, rw)
           IN  /\ Len(hit) <= 1
               /\ \A i \in DOMAIN Windows :
                      (addr = Windows[i].first - 1 \/ addr = Windows[i].last + 1) =>
                          \A k \in 1 .. Len(hit) : hit[k].name # Windows[i].name
    /\ [][/\ Len(ev') <= 1
          /\ \A k \in 1 .. Len(ev') :
                 \E i \in DOMAIN Windows :
                     /\ Windows[i].name = ev'[k].call
                     /\ 0 <= ev'[k].arg
                     /\ ev'[k].arg <= Windows[i].last - Windows[i].first]_vars

\* the byte above the first disk controller reset window (0x1fa80004) was
\* read: the handler of the neighbouring window ran, at its offset 0
C12_Witness ==
    /\ ev = <<Call("scsi_reset_1", 0)>>
    /\ access = "read"

-----------------------------------------------------------------------------
(* Interrupt wiring of the machine: the peripherals' interrupt outputs, the *)
(* timer outputs and the interrupt acknowledge reads.                       *)

LIO_D0 == 0
LIO_D1 == 1
LIO_D2 == 2
LIO_SCSI == 4

LioWired_all == 0 .. 7

\* the interrupt numbers an irq_cb is bound to
LioWired == {LIO_D0, LIO_D1, LIO_D2, LIO_SCSI}

\* irq_cb().set(FUNC(ip4_state::lio_interrupt<number>)).invert(): the
\* peripheral's interrupt output, inverted, reaches lio_interrupt
lio_callback(number, state) == lio_interrupt(number, 1 - state)

pit_follow(level, state) == state

\* if (state) m_cpu->set_input_line(..., 1): the level of the line afterwards
pit_latch(level, state) == IF state # 0 THEN 1 ELSE level

\* m_pit->out_handler<0>
pit_out0(state) ==
    /\ cpu_irq2' = pit_latch(cpu_irq2, state)
    /\ ev' = (IF state # 0 THEN <<Call("set_input_line_IRQ2", 1)>> ELSE <<>>)
    /\ access' = "none"
    /\ UNCHANGED <<lioVars, dmaVars, cfgVars, parityVars, errVars, cpu_irq4>>

\* m_pit->out_handler<1>
pit_out1(state) ==
    /\ cpu_irq4' = pit_latch(cpu_irq4, state)
    /\ ev' = (IF state # 0 THEN <<Call("set_input_line_IRQ4", 1)>> ELSE <<>>)
    /\ access' = "none"
    /\ UNCHANGED <<lioVars, dmaVars, cfgVars, parityVars, errVars, cpu_irq2>>

\* the read handler of 0x1fa00000
irq4_ack_r ==
    /\ cpu_irq4' = 0
    /\ ev' = <<Call("set_input_line_IRQ4", 0)>>
    /\ access' = "read"
    /\ UNCHANGED <<lioVars, dmaVars, cfgVars, parityVars, errVars, cpu_irq2>>

\* the read handler of 0x1fa20000
irq2_ack_r ==
    /\ cpu_irq2' = 0
    /\ ev' = <<Call("set_input_line_IRQ2", 0)>>
    /\ access' = "read"
    /\ UNCHANGED <<lioVars, dmaVars, cfgVars, parityVars, errVars, cpu_irq4>>

NextIrq ==
    \/ \E number \in LioWired, state \in {0, 1} : lio_callback(number, state)
    \/ \E state \in {0, 1} : pit_out0(state)
    \/ \E state \in {0, 1} : pit_out1(state)
    \/ irq4_ack_r
    \/ irq2_ack_r

SpecIrq == Init /\ [][NextIrq]_vars

\* C13: timer output 0 going high asserts IRQ2 and timer output 1 going high
\* asserts IRQ4; a timer output going low deasserts nothing; an asserted line
\* is deasserted only by the read of its acknowledge address (0x1fa20000 for
\* IRQ2, 0x1fa00000 for IRQ4), which deasserts that line and leaves the other
\* line and the aggregated interrupt line unchanged.
C13_TimerIrqLatched ==
    /\ Resolve(530710528, "read") = <<Windows[12]>> /\ Windows[12].name = "irq2_ack"
    /\ Resolve(530579456, "read") = <<Windows[11]>> /\ Windows[11].name = "irq4_ack"
    /\ [][/\ pit_out0(1) => (cpu_irq2' = 1 /\ cpu_irq4' = cpu_irq4)
          /\ pit_out1(1) => (cpu_irq4' = 1 /\ cpu_irq2' = cpu_irq2)
          /\ (pit_out0(0) \/ pit_out1(0)) =>
                 (cpu_irq2' = cpu_irq2 /\ cpu_irq4' = cpu_irq4 /\ ev' = <<>>)
          /\ (cpu_irq2 = 1 /\ cpu_irq2' = 0) => irq2_ack_r
          /\ (cpu_irq4 = 1 /\ cpu_irq4' = 0) => irq4_ack_r
          /\ irq2_ack_r =>
                 /\ cpu_irq2' = 0
                 /\ cpu_irq4' = cpu_irq4
                 /\ cpu_irq1' = cpu_irq1 /\ m_lio_int' = m_lio_int
          /\ irq4_ack_r =>
                 /\ cpu_irq4' = 0
                 /\ cpu_irq2' = cpu_irq2
                 /\ cpu_irq1' = cpu_irq1 /\ m_lio_int' = m_lio_int]_vars

\* with both lines asserted by the timer, the read of 0x1fa00000 has
\* deasserted IRQ4 alone
C13_Witness ==
    /\ ev = <<Call("set_input_line_IRQ4", 0)>>
    /\ cpu_irq4 = 0
    /\ cpu_irq2 = 1

-----------------------------------------------------------------------------
(* Bad-parity emulation: invariants of the whole machine, under Spec. *)

\* C14: while the bitmap is allocated the bad-bit counter equals the number
\* of bits set in the bitmap, under configuration writes, CPU reads and
\* writes and DMA transfers; the counter never goes below zero, and it is
\* zero whenever the bitmap is not allocated.
C14_CountIsPopulation ==
    /\ m_parity_bad >= 0
    /\ m_parity_alloc => m_parity_bad = Cardinality(BadLanes(m_parity))
    /\ ~m_parity_alloc => m_parity_bad = 0

\* three lanes of the word at 4 are marked bad, the last of them by a
\* transfer of the DMA engine into RAM
C14_Witness ==
    /\ m_parity_alloc
    /\ m_parity_bad = 3
    /\ ParityAt(m_parity, 0) = 112
    /\ "write_byte" \in Calls(ev)

\* C15: the parity tap is installed iff the bitmap is allocated, so parity_r
\* and parity_w, which run only through the installed tap, never run without
\* a bitmap: not after the write that freed it, and not after an activation
\* that follows a complete heal.
C15_TapIffAllocated ==
    /\ m_parity_mph <=> m_parity_alloc
    /\ m_parity_alloc \/ m_parity = NoParity

\* the tap has just been installed again, with an empty bitmap, after an
\* earlier bitmap whose bad lanes had raised a parity error was healed and
\* freed
C15_Witness ==
    /\ "install_readwrite_tap" \in Calls(ev)
    /\ m_parity_alloc
    /\ m_parity_mph
    /\ m_parity_bad = 0
    /\ m_parerr # 0

-----------------------------------------------------------------------------
(* Parity checking gate: properties, under SpecParity. *)

\* C16: while the parity checking bit (bit 10) of the configuration register
\* is clear, no RAM read, whatever its address, lane mask and the bitmap bits
\* of its lanes, changes the parity error flags or the bus error address or
\* raises a bus error; a configuration write that changes bit 10 alone leaves
\* bitmap, bad-bit count, tap, error flags and address latch unchanged.
C16_CheckGate ==
    [][/\ (BIT(m_cpucfg, 10) = 0 /\ access' = "read" /\
              \E offset \in RamOffsets, mem_mask \in MemMasks : ram_r(offset, mem_mask)) =>
                 /\ m_parerr' = m_parerr
                 /\ m_erradr' = m_erradr
                 /\ "berr_w" \notin Calls(ev')
       /\ (Xor(m_cpucfg, m_cpucfg') = CPUCFG_RPAR /\ cpucfg_w(m_cpucfg')) =>
                 /\ m_parity' = m_parity
                 /\ m_parity_bad' = m_parity_bad
                 /\ m_parity_alloc' = m_parity_alloc
                 /\ m_parity_mph' = m_parity_mph
                 /\ m_parerr' = m_parerr
                 /\ m_erradr' = m_erradr]_vars

\* with checking disabled and every lane of both words marked bad, a read
\* through the tap has raised nothing and latched nothing
C16_Witness ==
    /\ access = "read"
    /\ ev = <<>>
    /\ BIT(m_cpucfg, 10) = 0
    /\ m_parity_mph
    /\ ParityAt(m_parity, 0) = 240
    /\ ParityAt(m_parity, 1) = 15
    /\ m_parerr = 0
    /\ m_erradr = 0

-----------------------------------------------------------------------------
(* Parity error registers: properties, under Spec. *)

\* C17: an access to the parity error acknowledge register at offset k
\* (0 network, 1 DMA, 2 CPU, 3 backplane) clears the four lane flags and the
\* source flag k and leaves the other three source flags and the bus error
\* address unchanged; a read of the parity error status register changes
\* nothing.
C17_AckClearsLanesAndSource ==
    /\ \A parerr \in 0 .. 255, k \in 0 .. 3 :
           \A b \in 0 .. 7 :
               BIT(parerr_ack(parerr, k), b) = IF b >= 4 \/ b = k THEN 0 ELSE BIT(parerr, b)
    /\ [][/\ \A k \in 0 .. 3 :
                 (parerr_ack_r(k) \/ parerr_ack_w(k, 0)) =>
                     /\ \A b \in 4 .. 7 : BIT(m_parerr', b) = 0
                     /\ BIT(m_parerr', k) = 0
                     /\ \A b \in (0 .. 3) \ {k} : BIT(m_parerr', b) = BIT(m_parerr, b)
                     /\ m_erradr' = m_erradr
          /\ parerr_status_r =>
                 /\ m_parerr' = m_parerr
                 /\ m_erradr' = m_erradr
                 /\ parerr_r' = parerr_r
                 /\ UNCHANGED <<m_parity, m_parity_bad, m_parity_alloc, m_parity_mph,
                                m_cpucfg, m_dmalo, m_dmahi, m_lio_isr>>]_vars

\* after a parity error of the CPU at address 4 an acknowledge of another
\* source has cleared the lane flags and kept the CPU flag and the address
C17_Witness ==
    /\ m_parerr = PAR_CPU
    /\ m_erradr = 4
    /\ access \in {"read", "write"}
    /\ ev = <<>>

-----------------------------------------------------------------------------
(* DMA direction bit: properties, under SpecDma. *)

\* C18 as claimed: a transfer step never changes bit 15 of the DMA low
\* register, whatever 16-bit value software wrote to it.
C18_DirectionKept ==
    [][scsi_drq(1) => BIT(m_dmalo', 15) = BIT(m_dmalo, 15)]_vars

\* C18, amended: a transfer step changes bit 15 of the DMA low register
\* exactly when the register holds 0x7fff (the step gives 0x8000) or 0xffff
\* (the step gives 0x0000); every step leaves bits 12..14 clear, so these
\* values are held only as written by software and a step that follows a
\* step never changes bit 15.
C18_DirectionKeptButCarry ==
    [][scsi_drq(1) =>
          /\ (BIT(m_dmalo', 15) # BIT(m_dmalo, 15)) <=> (m_dmalo \in {32767, 65535})
          /\ (m_dmalo = 32767) => m_dmalo' = 32768
          /\ (m_dmalo = 65535) => m_dmalo' = 0
          /\ (m_dmalo' % 32768) < 4096]_vars

\* a byte went from memory to the peripheral (bit 15 clear) and the step left
\* the register at 0x8000, bit 15 set
C18_Witness ==
    /\ Len(ev) = 2
    /\ ev[1].call = "read_byte"
    /\ m_dmalo = 32768

-----------------------------------------------------------------------------
(* Interrupt wiring: properties, under SpecIrq. *)

\* C19: with only the interrupt numbers 0, 1, 2 and 4 bound to peripherals,
\* bits 3, 5, 6 and 7 of the interrupt status byte are 1 in every reachable
\* state, and so the aggregated interrupt is never asserted, whatever the
\* serial controllers and the disk controller signal.
C19_UnwiredBitsStaySet ==
    /\ \A b \in {3, 5, 6, 7} : BIT(m_lio_isr, b) = 1
    /\ ~m_lio_int
    /\ cpu_irq1 = 0
    /\ lio_isr_r # 0

\* the three serial controllers and the disk controller all assert their
\* interrupts (status byte 0xe8) and the CPU's IRQ1 input is low
C19_Witness ==
    /\ m_lio_isr = 232
    /\ ~m_lio_int
    /\ cpu_irq1 = 0

-----------------------------------------------------------------------------
(* Parity error source flags: properties, under Spec. *)

\* C20: the network, DMA and backplane source flags of the parity error
\* latch are clear in every reachable state; the only source flag ever set
\* is the CPU flag, also when the faulting read is made by the DMA engine's
\* transfer from memory to the peripheral.
C20_OnlyCpuSourceFlag ==
    /\ And(m_parerr, PAR_LAN + PAR_DMA + PAR_VME) = 0
    /\ And(parerr_r, PAR_LAN + PAR_DMA + PAR_VME) = 0

\* the DMA engine has read a byte with bad parity from memory: the bus error
\* was raised and the lane flag and the CPU flag, not the DMA flag, are set
C20_Witness ==
    /\ Calls(ev) = {"read_byte", "berr_w", "scsi_dma_w"}
    /\ And(m_parerr, PAR_CPU) # 0
    /\ And(m_parerr, PAR_ALL) # 0
    /\ And(m_parerr, PAR_DMA) = 0

=============================================================================
